---------------------------- MODULE Spec2Model ----------------------------
(***************************************************************************)
(* task-cli: the interactive prompt engine (src/src/index.js), the         *)
(* application loop that sequences the prompts, and the record store       *)
(* (src/unnamed/part_001, required by index.js as ./storage).              *)
(*                                                                         *)
(* Five specifications share the variables:                                *)
(*   Spec        the application: main() and its handlers                  *)
(*   SpecPrompt  the prompt primitives called with any option list         *)
(*   SpecStore   the TaskStorage methods called in any order               *)
(*   SpecCrash   the TaskStorage save, step by step, in a process that     *)
(*               can stop at any point                                     *)
(*   SpecHandlers  the handlers run one after another from the main menu,  *)
(*               each from its first line to its return in one step        *)
(***************************************************************************)
EXTENDS Integers, Sequences, FiniteSets, TLC

\* ------------------------------------------------------------------ bounds
\* longest option list handed to a prompt primitive in SpecPrompt
MaxOpts == 3
\* the clock (new Date()) runs from 1 to MaxClock
MaxClock == 2
\* most tasks the store holds in SpecStore
MaxTasks == 2
\* handlers the main menu loop (while (true)) dispatches to in Spec
MaxRounds == 1
\* ids uuidv4() hands out in SpecStore and SpecCrash
MaxIds == 4
\* TaskStorage calls in one run of SpecStore
MaxOps == 2
\* TaskStorage calls and process stops in one run of SpecCrash
MaxCalls == 3
\* handlers run one after another in SpecHandlers
MaxHandlers == 2

\* ------------------------------------------------------- program constants
\* index.js:9
PRIORITIES == <<"urgent", "high", "medium", "low">>
\* part_002 (ui.js) CATEGORIES
CATEGORIES ==
    <<"General", "Work", "Personal", "Shopping", "Health", "Learning", "Finance", "Projects">>
\* main(): menuItems, in order
menuItems ==
    <<"List Tasks", "Add Task", "Complete Task", "Edit Task", "Delete Task",
      "Statistics", "Search Tasks", "Clear Completed", "Help", "Exit">>
\* confirm() is always called with two options: ['Yes, ...', 'Cancel']
confirmOpts == <<"Yes", "Cancel">>

\* ------------------------------------------------------------ JS helpers
\* JS null / a present value, for fields that may be null
Null == <<>>
Some(x) == <<x>>

Max(a, b) == IF a > b THEN a ELSE b
Min(a, b) == IF a < b THEN a ELSE b

\* text is a sequence of characters; what a user can type at a line prompt
Typed == { <<>>, <<" ">>, <<" ", "a", " ">> }

RECURSIVE TrimStart(_)
TrimStart(s) ==
    IF s # <<>> /\ Head(s) = " " THEN TrimStart(Tail(s)) ELSE s
RECURSIVE TrimEnd(_)
TrimEnd(s) ==
    IF s # <<>> /\ s[Len(s)] = " " THEN TrimEnd(SubSeq(s, 1, Len(s) - 1)) ELSE s
\* String.prototype.trim
Trim(s) == TrimEnd(TrimStart(s))

\* the elements of a sequence
Range(s) == { s[i] : i \in DOMAIN s }
\* s without its elements equal to x (Set.delete on an insertion-ordered Set)
RECURSIVE Without(_, _)
Without(s, x) ==
    IF s = <<>> THEN <<>>
    ELSE IF Head(s) = x THEN Without(Tail(s), x)
    ELSE <<Head(s)>> \o Without(Tail(s), x)

VARIABLES
    stdin,      \* process.stdin: [isTTY, isRaw, keypress (the attached listeners)]
    prompt,     \* the prompt closure in flight: kind, state, options, cursor, result
    lastKey,    \* the input event delivered by the last step ("" when none)
    odd,        \* history: indices of a multi-select with an odd number of space presses
    proc,       \* "running" or "exited"
    pc,         \* where main() or a handler is suspended (its await)
    rounds,     \* handlers dispatched so far (Spec), store calls so far (SpecStore),
                \* store calls and stops so far (SpecCrash)
    locals,     \* local variables of the suspended handler
    disk,       \* [tasksFile, backupFile]: the two files of ~/.task-cli
    now,        \* the clock read by new Date()
    uuids,      \* how many ids uuidv4() has handed out
    born,       \* history: id -> createdAt assigned by add
    ret,        \* what the last TaskStorage call returned
    call,       \* history (SpecStore): the last TaskStorage call, its arguments,
                \* the files as they were before it, and the call before it;
                \* (SpecHandlers): the last handler and the files before it
    saved       \* history (SpecCrash): the collection of the last save that completed

vars ==
    <<stdin, prompt, lastKey, odd, proc, pc, rounds, locals, disk, now, uuids, born, ret,
      call, saved>>

\* ------------------------------------------------------- process.stdin
\* index.js:15-17
isInteractive(s) == s.isTTY = TRUE

\* process.stdin.setRawMode(mode) inside try/catch: on a stream that is not a
\* TTY setRawMode is not a function, the TypeError is swallowed
setRawMode(s, mode) == IF s.isTTY THEN [s EXCEPT !.isRaw = mode] ELSE s

\* a resetStdin that forgets setRawMode(false)
resetStdin_keepsRaw(s) == [s EXCEPT !.keypress = <<>>]
\* a resetStdin that forgets removeAllListeners
resetStdin_keepsListeners(s) == setRawMode(s, FALSE)
\* index.js:32-37
resetStdin(s) == [setRawMode(s, FALSE) EXCEPT !.keypress = <<>>]

\* process.stdin.on('keypress', onKey)
on(s, listener) == [s EXCEPT !.keypress = Append(@, listener)]
\* process.stdin.removeListener('keypress', onKey)
removeListener(s, listener) == [s EXCEPT !.keypress = Without(@, listener)]

\* ------------------------------------------------------- prompt closures
KeyPrompts == {"showMenu", "multiSelect", "confirm", "waitForKey"}

NoResult == [index |-> 0, indexes |-> <<>>, ok |-> FALSE, text |-> <<>>]

Idle ==
    [kind |-> "none", state |-> "idle", n |-> 0, selected |-> 0, current |-> 0,
     selectedSet |-> <<>>, result |-> NoResult]

\* a prompt that has set up its closure (selected = 0, current = 0, new Set())
\* and returned its pending promise
Awaiting(kind, n) == [Idle EXCEPT !.kind = kind, !.state = "awaiting", !.n = n]

\* resolve(result)
Resolve(p, result) == [p EXCEPT !.state = "resolved", !.result = result]

\* the pair a key handler leaves behind
Out(p, s) == [p |-> p, s |-> s]

\* named key events of the keypress module: (ch, key) with key.name, the
\* space character (ch === ' '), and an event whose key is undefined
Keys == {"up", "down", "return", "escape", "space", "other", "nokey"}

\* index.js:71, 124, 179
up(i, n) == Max(0, i - 1)

\* Math.min(length - 1, i + 1) without the clamp
down_unclamped(i, n) == i + 1
\* index.js:74, 127, 182
down(i, n) == Min(n - 1, i + 1)

\* showMenu.onKey that also resolves on any other named key
showMenu_onKey_anyKeyResolves(p, s, key) ==
    IF key = "nokey" THEN Out(p, s)
    ELSE IF key = "up" THEN Out([p EXCEPT !.selected = up(@, p.n)], s)
    ELSE IF key = "down" THEN Out([p EXCEPT !.selected = down(@, p.n)], s)
    ELSE IF key = "escape"
        THEN Out(Resolve(p, [NoResult EXCEPT !.index = p.selected, !.ok = FALSE]), resetStdin(s))
    ELSE Out(Resolve(p, [NoResult EXCEPT !.index = p.selected, !.ok = TRUE]), resetStdin(s))
\* index.js:67-83
showMenu_onKey(p, s, key) ==
    IF key = "nokey" THEN Out(p, s)
    ELSE IF key = "up" THEN Out([p EXCEPT !.selected = up(@, p.n)], s)
    ELSE IF key = "down" THEN Out([p EXCEPT !.selected = down(@, p.n)], s)
    ELSE IF key = "return"
        THEN Out(Resolve(p, [NoResult EXCEPT !.index = p.selected, !.ok = TRUE]), resetStdin(s))
    ELSE IF key = "escape"
        THEN Out(Resolve(p, [NoResult EXCEPT !.index = p.selected, !.ok = FALSE]), resetStdin(s))
    ELSE Out(p, s)

\* selected.has(current) ? selected.delete(current) : selected.add(current)
toggle(set, i) == IF i \in Range(set) THEN Without(set, i) ELSE Append(set, i)

\* multiSelect.onKey whose space key only ever adds
multiSelect_onKey_neverDeselects(p, s, key) ==
    IF key = "nokey" THEN Out(p, s)
    ELSE IF key = "up" THEN Out([p EXCEPT !.current = up(@, p.n)], s)
    ELSE IF key = "down" THEN Out([p EXCEPT !.current = down(@, p.n)], s)
    ELSE IF key = "space"
        THEN Out([p EXCEPT !.selectedSet =
                     IF p.current \in Range(@) THEN @ ELSE Append(@, p.current)], s)
    ELSE IF key = "return"
        THEN Out(Resolve(p, [NoResult EXCEPT !.indexes = p.selectedSet, !.ok = TRUE]), resetStdin(s))
    ELSE IF key = "escape"
        THEN Out(Resolve(p, [NoResult EXCEPT !.indexes = <<>>, !.ok = FALSE]), resetStdin(s))
    ELSE Out(p, s)
\* index.js:120-141
multiSelect_onKey(p, s, key) ==
    IF key = "nokey" THEN Out(p, s)
    ELSE IF key = "up" THEN Out([p EXCEPT !.current = up(@, p.n)], s)
    ELSE IF key = "down" THEN Out([p EXCEPT !.current = down(@, p.n)], s)
    ELSE IF key = "space" THEN Out([p EXCEPT !.selectedSet = toggle(@, p.current)], s)
    ELSE IF key = "return"
        THEN Out(Resolve(p, [NoResult EXCEPT !.indexes = p.selectedSet, !.ok = TRUE]), resetStdin(s))
    ELSE IF key = "escape"
        THEN Out(Resolve(p, [NoResult EXCEPT !.indexes = <<>>, !.ok = FALSE]), resetStdin(s))
    ELSE Out(p, s)

\* confirm.onKey that treats escape as a decline
confirm_onKey_escapeResolves(p, s, key) ==
    IF key = "nokey" THEN Out(p, s)
    ELSE IF key = "up" THEN Out([p EXCEPT !.selected = up(@, p.n)], s)
    ELSE IF key = "down" THEN Out([p EXCEPT !.selected = down(@, p.n)], s)
    ELSE IF key = "return"
        THEN Out(Resolve(p, [NoResult EXCEPT !.index = p.selected, !.ok = (p.selected = 0)]),
                 resetStdin(s))
    ELSE IF key = "escape"
        THEN Out(Resolve(p, [NoResult EXCEPT !.index = p.selected, !.ok = FALSE]), resetStdin(s))
    ELSE Out(p, s)
\* index.js:175-188
confirm_onKey(p, s, key) ==
    IF key = "nokey" THEN Out(p, s)
    ELSE IF key = "up" THEN Out([p EXCEPT !.selected = up(@, p.n)], s)
    ELSE IF key = "down" THEN Out([p EXCEPT !.selected = down(@, p.n)], s)
    ELSE IF key = "return"
        THEN Out(Resolve(p, [NoResult EXCEPT !.index = p.selected, !.ok = (p.selected = 0)]),
                 resetStdin(s))
    ELSE Out(p, s)

\* index.js:203-207: any keypress event at all, key defined or not
waitForKey_onKey(p, s, key) ==
    Out(Resolve(p, NoResult), resetStdin(removeListener(s, "waitForKey")))

\* the promise executor shared by the four raw-mode prompts:
\* setRawMode(true); resume(); keypress(stdin); stdin.on('keypress', onKey)
\* index.js:59-65+85, 112-118+143, 167-173+190, 195-201+208
listen(s, kind) == on(setRawMode(s, TRUE), kind)

\* index.js:39-87
showMenu(s, n) ==
    IF ~isInteractive(s)
        THEN Out(Resolve(Awaiting("showMenu", n), [NoResult EXCEPT !.index = 0, !.ok = TRUE]), s)
        ELSE Out(Awaiting("showMenu", n), listen(s, "showMenu"))

\* index.js:89-145
multiSelect(s, n) ==
    IF ~isInteractive(s)
        THEN Out(Resolve(Awaiting("multiSelect", n),
                         [NoResult EXCEPT !.indexes = <<0>>, !.ok = TRUE]), s)
        ELSE Out(Awaiting("multiSelect", n), listen(s, "multiSelect"))

\* index.js:147-192
confirm(s, n) ==
    IF ~isInteractive(s)
        THEN Out(Resolve(Awaiting("confirm", n), [NoResult EXCEPT !.index = 0, !.ok = TRUE]), s)
        ELSE Out(Awaiting("confirm", n), listen(s, "confirm"))

\* index.js:194-210: no isInteractive() test
waitForKey(s) == Out(Awaiting("waitForKey", 0), listen(s, "waitForKey"))

\* index.js:19-30: readline question, line-buffered, no keypress listener of its own
ask(s) == Out(Awaiting("ask", 0), s)

\* the listener of the prompt in flight, by the prompt's kind
onKey(p, s, key) ==
    CASE p.kind = "showMenu" -> showMenu_onKey(p, s, key)
      [] p.kind = "multiSelect" -> multiSelect_onKey(p, s, key)
      [] p.kind = "confirm" -> confirm_onKey(p, s, key)
      [] p.kind = "waitForKey" -> waitForKey_onKey(p, s, key)


\* ------------------------------------------------------------ TaskStorage
\* the state of one file of ~/.task-cli: missing, unparseable, or a JSON array
Absent == [exists |-> FALSE, ok |-> FALSE, tasks |-> <<>>]
Corrupt == [exists |-> TRUE, ok |-> FALSE, tasks |-> <<>>]
FileOf(tasks) == [exists |-> TRUE, ok |-> TRUE, tasks |-> tasks]

\* a load that falls back to the backup when the primary cannot be read
load_fallsBackToBackup(d) ==
    IF d.tasksFile.exists /\ d.tasksFile.ok THEN d.tasksFile.tasks
    ELSE IF d.backupFile.exists /\ d.backupFile.ok THEN d.backupFile.tasks
    ELSE <<>>
\* part_001:23-30: readFileSync + JSON.parse, [] on any failure
load(d) == IF d.tasksFile.exists /\ d.tasksFile.ok THEN d.tasksFile.tasks ELSE <<>>

\* a save that writes the primary without copying it first
save_noBackup(d, tasks) == [tasksFile |-> FileOf(tasks), backupFile |-> d.backupFile]
\* part_001:32-38: copy the primary over the backup if it exists, then write
save(d, tasks) ==
    [tasksFile |-> FileOf(tasks),
     backupFile |-> IF d.tasksFile.exists THEN d.tasksFile ELSE d.backupFile]

\* part_001:14-21 (the data directory is not modelled)
init(d) == IF ~d.tasksFile.exists THEN save(d, <<>>) ELSE d

\* part_001:40-42
getAll(d) == load(d)

\* the pair a store method leaves behind: the files and its return value
Ret(d, op, val) == [disk |-> d, ret |-> [op |-> op, val |-> val]]

\* x || dflt for a field of an object that may lack it: undefined, null, ''
\* are falsy, an array (tags) is truthy even when empty
OrElse(obj, f, dflt) ==
    IF f \notin DOMAIN obj THEN dflt
    ELSE IF f = "tags" THEN obj[f]
    ELSE IF f = "dueDate" /\ (obj[f] = Null \/ obj[f][1] = <<>>) THEN dflt
    ELSE IF f = "description" /\ obj[f] = <<>> THEN dflt
    ELSE obj[f]

\* part_001:51-62: the task object literal of add
newTask(taskData, id, time) ==
    [id |-> id,
     title |-> taskData.title,
     description |-> OrElse(taskData, "description", <<>>),
     priority |-> IF "priority" \in DOMAIN taskData THEN taskData.priority ELSE "medium",
     category |-> IF "category" \in DOMAIN taskData THEN taskData.category ELSE "General",
     dueDate |-> OrElse(taskData, "dueDate", Null),
     completed |-> FALSE,
     completedAt |-> Null,
     createdAt |-> time,
     tags |-> OrElse(taskData, "tags", <<>>)]

\* part_001:49-66; id is the value uuidv4() returned, time is new Date()
add(d, taskData, id, time) ==
    LET task == newTask(taskData, id, time)
    IN Ret(save(d, Append(load(d), task)), "add", task)

\* a findIndex that answers the first task when no task has the id
findIndex_defaultsFirst(tasks, id) ==
    IF \E i \in DOMAIN tasks : tasks[i].id = id
        THEN CHOOSE i \in DOMAIN tasks :
                 tasks[i].id = id /\ \A j \in 1..(i - 1) : tasks[j].id # id
        ELSE IF tasks # <<>> THEN 1 ELSE 0
\* tasks.findIndex(t => t.id === id), 0 for -1 (sequences start at 1)
findIndex(tasks, id) ==
    IF \E i \in DOMAIN tasks : tasks[i].id = id
        THEN CHOOSE i \in DOMAIN tasks :
                 tasks[i].id = id /\ \A j \in 1..(i - 1) : tasks[j].id # id
        ELSE 0

\* a merge that resets the description unless it is supplied
spread_clearsDescription(task, updates) ==
    [f \in DOMAIN task \cup DOMAIN updates |->
        IF f \in DOMAIN updates THEN updates[f]
        ELSE IF f = "description" THEN <<>> ELSE task[f]]
\* { ...task, ...updates }
spread(task, updates) ==
    [f \in DOMAIN task \cup DOMAIN updates |->
        IF f \in DOMAIN updates THEN updates[f] ELSE task[f]]

\* part_001:68-77
update(d, id, updates) ==
    LET tasks == load(d)
        index == findIndex(tasks, id)
    IN IF index # 0
           THEN LET merged == [tasks EXCEPT ![index] = spread(tasks[index], updates)]
                IN Ret(save(d, merged), "update", Some(merged[index]))
           ELSE Ret(d, "update", Null)

\* part_001:79-84: saves whether or not a task was removed
delete(d, id) ==
    LET tasks == load(d)
        keep(t) == t.id # id
        filtered == SelectSeq(tasks, keep)
    IN Ret(save(d, filtered), "delete", Len(filtered) < Len(tasks))

\* part_001:86-96
toggleComplete(d, id, time) ==
    LET tasks == load(d)
        index == findIndex(tasks, id)
    IN IF index # 0
           THEN LET task == [tasks[index] EXCEPT
                                !.completed = ~@,
                                !.completedAt = IF ~tasks[index].completed
                                                THEN Some(time) ELSE Null]
                IN Ret(save(d, [tasks EXCEPT ![index] = task]), "toggleComplete", Some(task))
           ELSE Ret(d, "toggleComplete", Null)

\* a clearCompleted that returns how many tasks it kept
clearCompleted_returnsKept(d) ==
    LET tasks == load(d)
        keep(t) == ~t.completed
        pending == SelectSeq(tasks, keep)
    IN Ret(save(d, pending), "clearCompleted", Len(pending))
\* part_001:98-103: saves whether or not a task was removed
clearCompleted(d) ==
    LET tasks == load(d)
        keep(t) == ~t.completed
        pending == SelectSeq(tasks, keep)
    IN Ret(save(d, pending), "clearCompleted", Len(tasks) - Len(pending))

\* a filter that ignores the status criterion
filterPending_all(d) == load(d)
\* part_001:116-134 with criteria {status: 'pending'}, the one call index.js makes
filterPending(d) ==
    LET keep(t) == ~t.completed
    IN SelectSeq(load(d), keep)

\* part_001:137
priorityOrder(p) ==
    CASE p = "urgent" -> 0 [] p = "high" -> 1 [] p = "medium" -> 2 [] p = "low" -> 3

\* !x for a dueDate: null and '' are falsy
falsy(dueDate) == dueDate = Null \/ dueDate[1] = <<>>

\* new Date(text).getTime(): the day number of a date, Null for NaN (a text
\* that is no date gives an Invalid Date)
Date(text) ==
    CASE text = <<"2024-03-01">> -> Some(1)
      [] text = <<"2024-03-02">> -> Some(2)
      [] OTHER -> Null

\* x - y on two Dates; a NaN result makes the comparator return NaN, which
\* Array.prototype.sort takes as 0
minus(x, y) == IF x = Null \/ y = Null THEN 0 ELSE x[1] - y[1]

\* part_001:139-163: the comparator. createdAt is the clock reading itself.
\* 'title' (localeCompare) is not modelled and is never passed here
comparison(a, b, sortBy) ==
    CASE sortBy = "priority" -> priorityOrder(a.priority) - priorityOrder(b.priority)
      [] sortBy = "due" ->
             IF falsy(a.dueDate) /\ falsy(b.dueDate) THEN 0
             ELSE IF falsy(a.dueDate) THEN 1
             ELSE IF falsy(b.dueDate) THEN -1
             ELSE minus(Date(a.dueDate[1]), Date(b.dueDate[1]))
      [] sortBy = "date" -> a.createdAt - b.createdAt
      [] OTHER -> 0

\* x put into an ordered sequence after every element that does not compare
\* greater than it (Array.prototype.sort is stable)
RECURSIVE insertSorted(_, _, _)
insertSorted(x, s, sortBy) ==
    IF s = <<>> THEN <<x>>
    ELSE IF comparison(Head(s), x, sortBy) <= 0
        THEN <<Head(s)>> \o insertSorted(x, Tail(s), sortBy)
    ELSE <<x>> \o s

RECURSIVE sortCopy(_, _)
sortCopy(tasks, sortBy) ==
    IF tasks = <<>> THEN <<>>
    ELSE insertSorted(tasks[Len(tasks)], sortCopy(SubSeq(tasks, 1, Len(tasks) - 1), sortBy),
                      sortBy)

Reverse(s) == [i \in 1..Len(s) |-> s[Len(s) + 1 - i]]

\* part_001:136-166
sort(tasks, sortBy, reverse) ==
    IF reverse THEN Reverse(sortCopy(tasks, sortBy)) ELSE sortCopy(tasks, sortBy)

\* part_001:168-172: the completed count of getStats()
getStatsCompleted(d) ==
    LET done(t) == t.completed
    IN Len(SelectSeq(load(d), done))

\* part_001:44-47: 0 stands for undefined
getById(d, id) ==
    LET index == findIndex(load(d), id)
    IN IF index # 0 THEN Some(load(d)[index]) ELSE Null


\* ------------------------------------------------- state after construction
NoLocals ==
    [list |-> <<>>, indexes |-> <<>>, task |-> Null, title |-> <<>>,
     priority |-> "", category |-> "", due |-> Null]

NoRet == [op |-> "none", val |-> Null]

\* a call without an object argument; no call yet
NoArg == [f \in {} |-> f]
NoCall ==
    [op |-> "none", id |-> 0, arg |-> NoArg, before |-> [tasksFile |-> Absent, backupFile |-> Absent],
     prev |-> [op |-> "none", id |-> 0]]

\* a fresh directory, and one whose tasks.json does not parse
FreshDisk == [tasksFile |-> Absent, backupFile |-> Absent]
BrokenDisk == [tasksFile |-> Corrupt, backupFile |-> Absent]

Stdin0(tty) == [isTTY |-> tty, isRaw |-> FALSE, keypress |-> <<>>]

\* --------------------------------------------------------- input events
\* the indices with an odd number of space presses, after this key
oddAfter(p, key) ==
    IF p.kind = "multiSelect" /\ key = "space"
        THEN (odd \ {p.current}) \cup ({p.current} \ odd)
        ELSE odd

\* a keypress event reaches the listener of the prompt in flight
KeyPress ==
    \E key \in Keys :
        /\ proc = "running"
        /\ prompt.state = "awaiting"
        /\ prompt.kind \in KeyPrompts
        /\ prompt.kind \in Range(stdin.keypress)
        /\ LET o == onKey(prompt, stdin, key)
           IN /\ prompt' = o.p
              /\ stdin' = o.s
        /\ lastKey' = key
        /\ odd' = oddAfter(prompt, key)
        /\ UNCHANGED <<proc, pc, rounds, locals, disk, now, uuids, born, ret, call, saved>>

\* index.js:25-28: readline delivers the line typed at a question
Line ==
    \E text \in Typed :
        /\ proc = "running"
        /\ prompt.state = "awaiting"
        /\ prompt.kind = "ask"
        /\ prompt' = Resolve(prompt, [NoResult EXCEPT !.text = text])
        /\ lastKey' = "line"
        /\ UNCHANGED <<stdin, odd, proc, pc, rounds, locals, disk, now, uuids, born, ret, call, saved>>

\* time passes. The clock is read by store calls only, and a handler reads it
\* in one step, so it is advanced between store calls (SpecStore) and while
\* the main menu waits (Spec): every reading a handler can get is still there
Tick ==
    /\ proc = "running"
    /\ pc = "store" \/ (pc = "main_showMenu" /\ prompt.state = "awaiting")
    /\ now < MaxClock
    /\ now' = now + 1
    /\ lastKey' = ""
    /\ UNCHANGED <<stdin, prompt, odd, proc, pc, rounds, locals, disk, uuids, born, ret, call, saved>>

\* ------------------------------------------------------------ SpecPrompt
\* a caller that awaits one prompt primitive after another
InitPrompt ==
    /\ stdin \in { Stdin0(tty) : tty \in BOOLEAN }
    /\ prompt = Idle
    /\ lastKey = ""
    /\ odd = {}
    /\ proc = "running"
    /\ pc = "caller"
    /\ rounds = 0
    /\ locals = NoLocals
    /\ disk = FreshDisk
    /\ now = 1
    /\ uuids = 0
    /\ born = <<>>
    /\ ret = NoRet
    /\ call = NoCall
    /\ saved = Null

Begin(o) ==
    /\ pc = "caller"
    /\ proc = "running"
    /\ prompt.state = "idle"
    /\ prompt' = o.p
    /\ stdin' = o.s
    /\ lastKey' = ""
    /\ odd' = {}
    /\ UNCHANGED <<proc, pc, rounds, locals, disk, now, uuids, born, ret, call, saved>>

CallShowMenu == \E n \in 1..MaxOpts : Begin(showMenu(stdin, n))
CallMultiSelect == \E n \in 1..MaxOpts : Begin(multiSelect(stdin, n))
CallConfirm == Begin(confirm(stdin, Len(confirmOpts)))
CallWaitForKey == Begin(waitForKey(stdin))
CallAsk == Begin(ask(stdin))

\* the caller's await returns; the prompt instance is not reused
Return ==
    /\ pc = "caller"
    /\ prompt.state = "resolved"
    /\ prompt' = Idle
    /\ lastKey' = ""
    /\ odd' = {}
    /\ UNCHANGED <<stdin, proc, pc, rounds, locals, disk, now, uuids, born, ret, call, saved>>

NextPrompt ==
    \/ CallShowMenu
    \/ CallMultiSelect
    \/ CallConfirm
    \/ CallWaitForKey
    \/ CallAsk
    \/ KeyPress
    \/ Line
    \/ Return

SpecPrompt == InitPrompt /\ [][NextPrompt]_vars


\* what an earlier session can have left in ~/.task-cli: nothing, or three
\* tasks, the second completed (built with the store's own methods)
SeedDisk ==
    LET d0 == init(FreshDisk)
        d1 == add(d0, [title |-> <<"a">>, priority |-> "low"], 1, 1).disk
        d2 == add(d1, [title |-> <<"b">>, priority |-> "urgent", category |-> "Work",
                       dueDate |-> Some(<<"2024-03-01">>), description |-> <<"d">>],
                  2, 1).disk
        d3 == toggleComplete(d2, 2, 1).disk
    IN add(d3, [title |-> <<"c">>, priority |-> "low"], 3, 1).disk

Seeds ==
    { [disk |-> FreshDisk, uuids |-> 0, born |-> <<>>],
      [disk |-> SeedDisk, uuids |-> 3, born |-> <<1, 1, 1>>] }


\* ------------------------------------------------------------- SpecStore
\* the TaskStorage singleton, its methods called in any order with any
\* arguments. An earlier session can have left nothing, the three tasks of
\* SeedDisk, or a tasks.json that does not parse
StoreSeeds == Seeds \cup { [disk |-> BrokenDisk, uuids |-> 0, born |-> <<>>] }

InitStore ==
    \E seed \in StoreSeeds :
        /\ stdin = Stdin0(TRUE)
        /\ prompt = Idle
        /\ lastKey = ""
        /\ odd = {}
        /\ proc = "running"
        /\ pc = "store"
        /\ rounds = 0
        /\ locals = NoLocals
        /\ disk = init(seed.disk)
        /\ now = 1
        /\ uuids = seed.uuids
        /\ born = seed.born
        /\ ret = NoRet
        /\ call = NoCall
        /\ saved = Null

\* taskData objects handed to add
AddInputs ==
    { [title |-> <<"a">>],
      [title |-> <<"b">>, priority |-> "urgent", category |-> "Work",
       dueDate |-> Some(<<"2024-03-01">>), description |-> <<"d">>] }

\* updates objects handed to update: any fields of a task
UpdateInputs ==
    { [title |-> <<"c">>],
      [priority |-> "low", category |-> "Personal"],
      [dueDate |-> Null, description |-> <<>>],
      [completed |-> TRUE],
      [completed |-> FALSE],
      [completed |-> TRUE, completedAt |-> Some(now)],
      [createdAt |-> now] }
    \cup { [id |-> i] : i \in 1..MaxIds }

\* a store call ran to its end
Called(r, id, arg) ==
    /\ pc = "store"
    /\ rounds < MaxOps
    /\ rounds' = rounds + 1
    /\ disk' = r.disk
    /\ ret' = r.ret
    /\ call' = [op |-> r.ret.op, id |-> id, arg |-> arg, before |-> disk,
                prev |-> [op |-> call.op, id |-> call.id]]
    /\ UNCHANGED <<stdin, prompt, lastKey, odd, proc, pc, locals, now, saved>>

StoreAdd ==
    \E taskData \in AddInputs :
        /\ uuids < MaxIds
        /\ Len(load(disk)) < MaxTasks
        /\ Called(add(disk, taskData, uuids + 1, now), uuids + 1, taskData)
        /\ uuids' = uuids + 1
        /\ born' = Append(born, now)

StoreUpdate ==
    \E id \in 1..MaxIds, updates \in UpdateInputs :
        /\ Called(update(disk, id, updates), id, updates)
        /\ UNCHANGED <<uuids, born>>

StoreDelete ==
    \E id \in 1..MaxIds :
        /\ Called(delete(disk, id), id, NoArg)
        /\ UNCHANGED <<uuids, born>>

StoreToggleComplete ==
    \E id \in 1..MaxIds :
        /\ Called(toggleComplete(disk, id, now), id, NoArg)
        /\ UNCHANGED <<uuids, born>>

StoreClearCompleted ==
    /\ Called(clearCompleted(disk), 0, NoArg)
    /\ UNCHANGED <<uuids, born>>

\* sort keys handed to sort: the three modelled ones and an unknown one
SortKeys == {"priority", "due", "date", "none"}

\* storage.sort(storage.getAll(), sortBy, reverse): reads, stores nothing
StoreSort ==
    \E sortBy \in SortKeys, reverse \in BOOLEAN :
        /\ Called(Ret(disk, "sort", sort(getAll(disk), sortBy, reverse)), 0,
                  [sortBy |-> sortBy, reverse |-> reverse])
        /\ UNCHANGED <<uuids, born>>

\* the failures readFileSync and JSON.parse can meet (part_001:24-28):
\* something outside the program removed tasks.json or left it unparseable
Damage ==
    \E f \in {Absent, Corrupt} :
        /\ pc = "store"
        /\ disk.tasksFile # f
        /\ disk' = [disk EXCEPT !.tasksFile = f]
        /\ call' = NoCall
        /\ lastKey' = ""
        /\ UNCHANGED <<stdin, prompt, odd, proc, pc, rounds, locals, now, uuids, born, ret, saved>>

NextStore ==
    \/ StoreAdd
    \/ StoreUpdate
    \/ StoreDelete
    \/ StoreToggleComplete
    \/ StoreClearCompleted
    \/ StoreSort
    \/ Damage
    \/ Tick

SpecStore == InitStore /\ [][NextStore]_vars

\* ------------------------------------------------------------- SpecCrash
\* the store with save (part_001:32-38) taken one file-system call at a time,
\* in a process that can stop at any point and be started again. pc is
\* "init" (the constructor runs), "store" (between two calls), "save" (save
\* was entered), "save_copying", "save_copied", "save_writing".

\* a file being written: the first k tasks of the JSON array are on disk, the
\* closing bracket is not, so JSON.parse throws on it
Partial(tasks, k) == [exists |-> TRUE, ok |-> FALSE, tasks |-> SubSeq(tasks, 1, k)]

InitCrash ==
    \E seed \in Seeds :
        /\ stdin = Stdin0(TRUE)
        /\ prompt = Idle
        /\ lastKey = ""
        /\ odd = {}
        /\ proc = "running"
        /\ pc = "init"
        /\ rounds = 0
        /\ locals = NoLocals
        /\ disk = seed.disk
        /\ now = 1
        /\ uuids = seed.uuids
        /\ born = seed.born
        /\ ret = NoRet
        /\ call = NoCall
        /\ saved = IF seed.disk.tasksFile.exists THEN Some(load(seed.disk)) ELSE Null

\* what no step of SpecCrash changes
CrashFrame == UNCHANGED <<stdin, prompt, odd, proc, now, ret, call>>

\* save(tasks) is entered
EnterSave(tasks) ==
    /\ pc' = "save"
    /\ locals' = [NoLocals EXCEPT !.list = tasks]
    /\ lastKey' = ""
    /\ UNCHANGED <<disk, saved>>
    /\ CrashFrame

\* part_001:11, 14-21: the constructor; save([]) when there is no tasks.json
Construct ==
    /\ pc = "init"
    /\ IF ~disk.tasksFile.exists
           THEN EnterSave(<<>>)
           ELSE /\ pc' = "store"
                /\ lastKey' = ""
                /\ UNCHANGED <<locals, disk, saved>>
                /\ CrashFrame
    /\ UNCHANGED <<rounds, uuids, born>>

\* a method has loaded the collection, changed it in memory and calls save
Mutated(r) ==
    /\ pc = "store"
    /\ rounds < MaxCalls
    /\ rounds' = rounds + 1
    /\ EnterSave(r.disk.tasksFile.tasks)

\* part_001:49-64
CrashAdd ==
    \E taskData \in AddInputs :
        /\ uuids < MaxIds
        /\ Mutated(add(disk, taskData, uuids + 1, now))
        /\ uuids' = uuids + 1
        /\ born' = Append(born, now)

\* part_001:79-82
CrashDelete ==
    \E id \in 1..MaxIds :
        /\ Mutated(delete(disk, id))
        /\ UNCHANGED <<uuids, born>>

\* part_001:86-92, for an id that is found (no save otherwise)
CrashToggleComplete ==
    \E id \in 1..MaxIds :
        /\ getById(disk, id) # Null
        /\ Mutated(toggleComplete(disk, id, now))
        /\ UNCHANGED <<uuids, born>>

\* part_001:98-101
CrashClearCompleted ==
    /\ Mutated(clearCompleted(disk))
    /\ UNCHANGED <<uuids, born>>

\* one file-system step of save
SaveStep(at, to, d) ==
    /\ pc = at
    /\ pc' = to
    /\ disk' = d
    /\ lastKey' = ""
    /\ UNCHANGED <<rounds, uuids, born>>
    /\ CrashFrame

\* part_001:33-35: existsSync is true, copyFileSync has opened the backup
SaveCopyBegin ==
    /\ disk.tasksFile.exists
    /\ SaveStep("save", "save_copying", [disk EXCEPT !.backupFile = Partial(<<>>, 0)])
    /\ UNCHANGED <<locals, saved>>

\* part_001:35: copyFileSync has returned
SaveCopyEnd ==
    /\ SaveStep("save_copying", "save_copied", [disk EXCEPT !.backupFile = disk.tasksFile])
    /\ UNCHANGED <<locals, saved>>

\* part_001:37: writeFileSync has opened the primary, which truncates it
SaveWriteBegin ==
    /\ \/ SaveStep("save_copied", "save_writing", [disk EXCEPT !.tasksFile = Partial(<<>>, 0)])
       \/ /\ ~disk.tasksFile.exists
          /\ SaveStep("save", "save_writing", [disk EXCEPT !.tasksFile = Partial(<<>>, 0)])
    /\ UNCHANGED <<locals, saved>>

\* part_001:37: some more of the JSON text has reached the file
SaveWritePart ==
    \E k \in 1..Len(locals.list) :
        /\ k > Len(disk.tasksFile.tasks)
        /\ SaveStep("save_writing", "save_writing",
                    [disk EXCEPT !.tasksFile = Partial(locals.list, k)])
        /\ UNCHANGED <<locals, saved>>

\* part_001:37-38: writeFileSync has returned, and save with it
SaveWriteEnd ==
    /\ SaveStep("save_writing", "store", [disk EXCEPT !.tasksFile = FileOf(locals.list)])
    /\ saved' = Some(locals.list)
    /\ locals' = NoLocals

\* the process stops where it is (killed, or the machine goes down) and the
\* program is started again later: nothing of the process is left, the files
\* are as they were
Stop ==
    /\ pc # "init"
    /\ rounds < MaxCalls
    /\ rounds' = rounds + 1
    /\ pc' = "init"
    /\ locals' = NoLocals
    /\ lastKey' = "stopped"
    /\ UNCHANGED <<disk, saved, uuids, born>>
    /\ CrashFrame

NextCrash ==
    \/ Construct
    \/ CrashAdd
    \/ CrashDelete
    \/ CrashToggleComplete
    \/ CrashClearCompleted
    \/ SaveCopyBegin
    \/ SaveCopyEnd
    \/ SaveWriteBegin
    \/ SaveWritePart
    \/ SaveWriteEnd
    \/ Stop

SpecCrash == InitCrash /\ [][NextCrash]_vars

\* C19: wherever the process stops in a store operation, the primary file or
\* the backup file holds the complete collection of the last save that
\* completed, and a primary file that is not completely written is never
\* read as a collection.
C19_LastSaveSurvives ==
    /\ saved # Null
           => disk.tasksFile = FileOf(saved[1]) \/ disk.backupFile = FileOf(saved[1])
    /\ ~disk.tasksFile.ok => load(disk) = <<>>

\* ------------------------------------------------- claims on the store
\* the persisted tasks
Tasks == load(disk)

\* C9: after any sequence of add, update (with any fields), delete and
\* toggleComplete, the persisted tasks have pairwise distinct ids and every
\* task still has the id and createdAt it was given by add.
C9_IdsDistinctCreatedAtFixed ==
    /\ \A i, j \in DOMAIN Tasks : i # j => Tasks[i].id # Tasks[j].id
    /\ \A i \in DOMAIN Tasks :
           /\ Tasks[i].id \in DOMAIN born
           /\ Tasks[i].createdAt = born[Tasks[i].id]

\* C10: every persisted task has completedAt non-null iff completed.
C10_CompletedAtIffCompleted ==
    \A i \in DOMAIN Tasks : (Tasks[i].completedAt # Null) <=> Tasks[i].completed

\* ------------------------------------------------------------------ Spec
\* the application: main() and the handlers it dispatches to. Every action is
\* the code that runs between two awaits.

\* index.js:6 (require('./storage') constructs the store) and 212-215:
\* main() has cleared the screen, printed the banner and awaits waitForKey()
Init ==
    \E tty \in BOOLEAN, seed \in Seeds :
        /\ stdin = waitForKey(Stdin0(tty)).s
        /\ prompt = waitForKey(Stdin0(tty)).p
        /\ lastKey = ""
        /\ odd = {}
        /\ proc = "running"
        /\ pc = "main_waitForKey"
        /\ rounds = 0
        /\ locals = NoLocals
        /\ disk = init(seed.disk)
        /\ now = 1
        /\ uuids = seed.uuids
        /\ born = seed.born
        /\ ret = NoRet
        /\ call = NoCall
        /\ saved = Null

\* the awaited prompt has resolved and the code after the await runs
Resumed(at) ==
    /\ proc = "running"
    /\ pc = at
    /\ prompt.state = "resolved"

\* the code has called a prompt primitive and awaits it
Await(o, at) ==
    /\ prompt' = o.p
    /\ stdin' = o.s
    /\ pc' = at
    /\ lastKey' = ""
    /\ odd' = {}

NoStore == UNCHANGED <<disk, uuids, born, ret, call, saved>>

\* index.js:240-243: the handler has returned; resetStdin(); await ask(...)
Finish ==
    /\ Await(ask(resetStdin(stdin)), "main_continue")
    /\ locals' = NoLocals

\* index.js:215-233: after the banner's key, the first main menu
\* index.js:232-233: the top of while (true)
Loop ==
    /\ Await(showMenu(stdin, Len(menuItems)), "main_showMenu")
    /\ UNCHANGED <<proc, now, rounds, locals>>
    /\ NoStore

Main_start ==
    /\ Resumed("main_waitForKey")
    /\ Loop

\* index.js:234: if (!result.ok) continue
Main_cancelled ==
    /\ Resumed("main_showMenu")
    /\ ~prompt.result.ok
    /\ Loop

\* index.js:236-238: item = menuItems[result.index]; clear(); await item.fn()
Chosen(name) ==
    /\ Resumed("main_showMenu")
    /\ prompt.result.ok
    /\ menuItems[prompt.result.index + 1] = name
    /\ rounds < MaxRounds
    /\ rounds' = rounds + 1
    /\ now' = now

\* index.js:242-244, 232-233: Enter pressed, back to the top of the loop
Main_continue ==
    /\ Resumed("main_continue")
    /\ Loop

\* the process is gone: its closures and listeners with it; the terminal
\* keeps the mode it was left in
Halt(s, event) ==
    /\ proc = "running"
    /\ proc' = "exited"
    /\ pc' = "exited"
    /\ prompt' = Idle
    /\ stdin' = [s EXCEPT !.keypress = <<>>]
    /\ locals' = NoLocals
    /\ lastKey' = event
    /\ odd' = {}
    /\ UNCHANGED <<rounds, disk, now, uuids, born, ret, call, saved>>

\* index.js:227: the Exit item
Exit ==
    /\ Chosen("Exit")
    /\ proc' = "exited"
    /\ pc' = "exited"
    /\ prompt' = Idle
    /\ stdin' = [stdin EXCEPT !.keypress = <<>>]
    /\ locals' = NoLocals
    /\ lastKey' = "exit"
    /\ odd' = {}
    /\ NoStore

\* index.js:437-438: the two registered handlers: resetStdin(); process.exit(0)
HandledTermination ==
    \E event \in {"uncaughtException", "SIGINT"} :
        Halt(resetStdin(stdin), event)

\* a signal with no handler registered ends the process at once
UnhandledSignal ==
    \E event \in {"SIGTERM", "SIGHUP"} :
        Halt(stdin, event)

\* index.js:440: main().catch(() => process.exit(0)); main can only throw
\* while it runs, that is in the code after an await
MainRejected ==
    /\ prompt.state = "resolved"
    /\ Halt(stdin, "rejected")

\* a later step of a handler: the prompt it awaited at `at` has resolved
Step(at) ==
    /\ Resumed(at)
    /\ UNCHANGED <<proc, now, rounds>>

\* the first step of a handler
Enter(name) ==
    /\ Chosen(name)
    /\ proc' = proc

\* index.js:247-260
ListTasks ==
    /\ Enter("List Tasks")
    /\ LET tasks == getAll(disk)
           sorted == sort(tasks, "priority", FALSE)
       IN IF Len(tasks) = 0
              THEN Finish
              ELSE /\ Await(multiSelect(stdin, Len(sorted)), "listTasks")
                   /\ locals' = [NoLocals EXCEPT !.list = sorted]
    /\ NoStore

\* index.js:262-266: the selected tasks are rendered, nothing is stored
ListTasks_shown ==
    /\ Step("listTasks")
    /\ Finish
    /\ NoStore

\* index.js:268-271
AddTask ==
    /\ Enter("Add Task")
    /\ Await(ask(stdin), "addTask_title")
    /\ locals' = NoLocals
    /\ NoStore

\* an addTask that goes on to the priority menu whatever the title is
AddTask_title_noCheck ==
    /\ Step("addTask_title")
    /\ Await(showMenu(stdin, Len(PRIORITIES)), "addTask_priority")
    /\ locals' = [locals EXCEPT !.title = prompt.result.text]
    /\ NoStore

\* index.js:272-280
AddTask_title ==
    /\ Step("addTask_title")
    /\ IF Trim(prompt.result.text) = <<>>
           THEN Finish
           ELSE /\ Await(showMenu(stdin, Len(PRIORITIES)), "addTask_priority")
                /\ locals' = [locals EXCEPT !.title = prompt.result.text]
    /\ NoStore

\* index.js:281-283
AddTask_priority ==
    /\ Step("addTask_priority")
    /\ Await(showMenu(stdin, Len(CATEGORIES)), "addTask_category")
    /\ locals' = [locals EXCEPT !.priority =
                     IF prompt.result.ok THEN PRIORITIES[prompt.result.index + 1]
                     ELSE "medium"]
    /\ NoStore

\* index.js:284-286
AddTask_category ==
    /\ Step("addTask_category")
    /\ Await(ask(stdin), "addTask_due")
    /\ locals' = [locals EXCEPT !.category =
                     IF prompt.result.ok THEN CATEGORIES[prompt.result.index + 1]
                     ELSE "General"]
    /\ NoStore

\* index.js:286-287
AddTask_due ==
    /\ Step("addTask_due")
    /\ Await(ask(stdin), "addTask_desc")
    /\ locals' = [locals EXCEPT !.due = Some(prompt.result.text)]
    /\ NoStore

\* x.trim() || null
trimOrNull(text) == IF Trim(text) = <<>> THEN Null ELSE Some(Trim(text))

\* index.js:289-295: the object addTask hands to storage.add
addTaskData(l, desc) ==
    [title |-> Trim(l.title),
     priority |-> l.priority,
     category |-> l.category,
     dueDate |-> trimOrNull(l.due[1]),
     description |-> Trim(desc)]

\* index.js:287-299
AddTask_desc ==
    /\ Step("addTask_desc")
    /\ LET r == add(disk, addTaskData(locals, prompt.result.text), uuids + 1, now)
       IN /\ disk' = r.disk
          /\ ret' = r.ret
    /\ uuids' = uuids + 1
    /\ born' = Append(born, now)
    /\ UNCHANGED <<call, saved>>
    /\ Finish

\* res.indexes.forEach(i => tasks[i] && storage.toggleComplete(tasks[i].id))
RECURSIVE toggleEach(_, _, _, _)
toggleEach(r, list, indexes, time) ==
    IF indexes = <<>> THEN r
    ELSE toggleEach(IF Head(indexes) + 1 \in DOMAIN list
                        THEN toggleComplete(r.disk, list[Head(indexes) + 1].id, time)
                        ELSE r,
                    list, Tail(indexes), time)

\* index.js:302-313
CompleteTask ==
    /\ Enter("Complete Task")
    /\ LET tasks == filterPending(disk)
       IN IF Len(tasks) = 0
              THEN Finish
              ELSE /\ Await(multiSelect(stdin, Len(tasks)), "completeTask")
                   /\ locals' = [NoLocals EXCEPT !.list = tasks]
    /\ NoStore

\* index.js:314-318
CompleteTask_selected ==
    /\ Step("completeTask")
    /\ IF ~prompt.result.ok \/ Len(prompt.result.indexes) = 0
           THEN NoStore
           ELSE LET r == toggleEach([disk |-> disk, ret |-> ret], locals.list,
                                    prompt.result.indexes, now)
                IN /\ disk' = r.disk
                   /\ ret' = r.ret
                   /\ UNCHANGED <<uuids, born, call, saved>>
    /\ Finish

\* index.js:321-333
EditTask ==
    /\ Enter("Edit Task")
    /\ LET tasks == getAll(disk)
           sorted == sort(tasks, "priority", FALSE)
       IN IF Len(tasks) = 0
              THEN Finish
              ELSE /\ Await(showMenu(stdin, Len(sorted)), "editTask_select")
                   /\ locals' = [NoLocals EXCEPT !.list = sorted]
    /\ NoStore

\* index.js:334-341
EditTask_select ==
    /\ Step("editTask_select")
    /\ IF ~prompt.result.ok \/ prompt.result.index + 1 \notin DOMAIN locals.list
           THEN Finish
           ELSE /\ Await(ask(stdin), "editTask_title")
                /\ locals' = [locals EXCEPT !.task = Some(locals.list[prompt.result.index + 1])]
    /\ NoStore

\* index.js:341-346: title = (await ask(...)) || task.title
EditTask_title ==
    /\ Step("editTask_title")
    /\ Await(showMenu(stdin, Len(PRIORITIES)), "editTask_priority")
    /\ locals' = [locals EXCEPT !.title =
                     IF prompt.result.text = <<>> THEN locals.task[1].title
                     ELSE prompt.result.text]
    /\ NoStore

\* index.js:347-349
EditTask_priority ==
    /\ Step("editTask_priority")
    /\ Await(showMenu(stdin, Len(CATEGORIES)), "editTask_category")
    /\ locals' = [locals EXCEPT !.priority =
                     IF prompt.result.ok THEN PRIORITIES[prompt.result.index + 1]
                     ELSE locals.task[1].priority]
    /\ NoStore

\* index.js:350-352
EditTask_category ==
    /\ Step("editTask_category")
    /\ Await(ask(stdin), "editTask_due")
    /\ locals' = [locals EXCEPT !.category =
                     IF prompt.result.ok THEN CATEGORIES[prompt.result.index + 1]
                     ELSE locals.task[1].category]
    /\ NoStore

\* index.js:352-353: due = (await ask(...)) || task.dueDate
EditTask_due ==
    /\ Step("editTask_due")
    /\ Await(ask(stdin), "editTask_desc")
    /\ locals' = [locals EXCEPT !.due =
                     IF prompt.result.text = <<>> THEN locals.task[1].dueDate
                     ELSE Some(prompt.result.text)]
    /\ NoStore

\* an update object that also marks the task as not completed
editUpdates_resetsCompleted(l, answer) ==
    LET task == l.task[1]
        desc == IF answer = <<>> THEN task.description ELSE answer
    IN [title |-> IF Trim(l.title) = <<>> THEN task.title ELSE Trim(l.title),
        priority |-> l.priority,
        category |-> l.category,
        dueDate |-> IF l.due = Null THEN Null ELSE trimOrNull(l.due[1]),
        description |-> Trim(desc),
        completed |-> FALSE]

\* index.js:353-361: the object editTask hands to storage.update, with
\* desc = (await ask(...)) || task.description
editUpdates(l, answer) ==
    LET task == l.task[1]
        desc == IF answer = <<>> THEN task.description ELSE answer
    IN [title |-> IF Trim(l.title) = <<>> THEN task.title ELSE Trim(l.title),
        priority |-> l.priority,
        category |-> l.category,
        dueDate |-> IF l.due = Null THEN Null ELSE trimOrNull(l.due[1]),
        description |-> Trim(desc)]

\* index.js:353-365
EditTask_desc ==
    /\ Step("editTask_desc")
    /\ LET r == update(disk, locals.task[1].id, editUpdates(locals, prompt.result.text))
       IN /\ disk' = r.disk
          /\ ret' = r.ret
    /\ UNCHANGED <<uuids, born, call, saved>>
    /\ Finish

\* index.js:368-380
DeleteTask ==
    /\ Enter("Delete Task")
    /\ LET tasks == getAll(disk)
           sorted == sort(tasks, "priority", FALSE)
       IN IF Len(tasks) = 0
              THEN Finish
              ELSE /\ Await(multiSelect(stdin, Len(sorted)), "deleteTask_select")
                   /\ locals' = [NoLocals EXCEPT !.list = sorted]
    /\ NoStore

\* index.js:381-386
DeleteTask_selected ==
    /\ Step("deleteTask_select")
    /\ IF ~prompt.result.ok \/ Len(prompt.result.indexes) = 0
           THEN Finish
           ELSE /\ Await(confirm(stdin, Len(confirmOpts)), "deleteTask_confirm")
                /\ locals' = [locals EXCEPT !.indexes = prompt.result.indexes]
    /\ NoStore

\* a forEach that stops after the first selected row
deleteEach_firstRowOnly(r, list, indexes) ==
    IF indexes = <<>> THEN r
    ELSE IF Head(indexes) + 1 \in DOMAIN list
        THEN delete(r.disk, list[Head(indexes) + 1].id)
    ELSE r
\* res.indexes.forEach(i => sorted[i] && storage.delete(sorted[i].id))
RECURSIVE deleteEach(_, _, _)
deleteEach(r, list, indexes) ==
    IF indexes = <<>> THEN r
    ELSE deleteEach(IF Head(indexes) + 1 \in DOMAIN list
                        THEN delete(r.disk, list[Head(indexes) + 1].id)
                        ELSE r,
                    list, Tail(indexes))

\* index.js:388-392
DeleteTask_confirmed ==
    /\ Step("deleteTask_confirm")
    /\ IF ~prompt.result.ok
           THEN NoStore
           ELSE LET r == deleteEach([disk |-> disk, ret |-> ret], locals.list, locals.indexes)
                IN /\ disk' = r.disk
                   /\ ret' = r.ret
                   /\ UNCHANGED <<uuids, born, call, saved>>
    /\ Finish

\* index.js:395-397, 433-435: showStats and showHelp print and return
ShowScreen ==
    \E name \in {"Statistics", "Help"} :
        /\ Enter(name)
        /\ Finish
        /\ NoStore

\* index.js:399-401
SearchTasks ==
    /\ Enter("Search Tasks")
    /\ Await(ask(resetStdin(stdin)), "searchTasks")
    /\ locals' = NoLocals
    /\ NoStore

\* index.js:402-411: the results are printed, nothing is stored
SearchTasks_shown ==
    /\ Step("searchTasks")
    /\ Finish
    /\ NoStore

\* index.js:414-424
ClearCompleted ==
    /\ Enter("Clear Completed")
    /\ IF getStatsCompleted(disk) = 0
           THEN Finish
           ELSE /\ Await(confirm(stdin, Len(confirmOpts)), "clearCompleted_confirm")
                /\ locals' = NoLocals
    /\ NoStore

\* index.js:426-430
ClearCompleted_confirmed ==
    /\ Step("clearCompleted_confirm")
    /\ IF ~prompt.result.ok
           THEN NoStore
           ELSE LET r == clearCompleted(disk)
                IN /\ disk' = r.disk
                   /\ ret' = r.ret
                   /\ UNCHANGED <<uuids, born, call, saved>>
    /\ Finish

Next ==
    \/ KeyPress
    \/ Line
    \/ Tick
    \/ Main_start
    \/ Main_cancelled
    \/ Main_continue
    \/ ListTasks
    \/ ListTasks_shown
    \/ AddTask
    \/ AddTask_title
    \/ AddTask_priority
    \/ AddTask_category
    \/ AddTask_due
    \/ AddTask_desc
    \/ CompleteTask
    \/ CompleteTask_selected
    \/ EditTask
    \/ EditTask_select
    \/ EditTask_title
    \/ EditTask_priority
    \/ EditTask_category
    \/ EditTask_due
    \/ EditTask_desc
    \/ DeleteTask
    \/ DeleteTask_selected
    \/ DeleteTask_confirmed
    \/ ShowScreen
    \/ SearchTasks
    \/ SearchTasks_shown
    \/ ClearCompleted
    \/ ClearCompleted_confirmed
    \/ Exit
    \/ HandledTermination
    \/ UnhandledSignal
    \/ MainRejected

Spec == Init /\ [][Next]_vars

\* ------------------------------------------------- claims on the prompts
\* the active row of a list prompt: `current` in multiSelect, `selected` in
\* showMenu and confirm
Active(p) == IF p.kind = "multiSelect" THEN p.current ELSE p.selected
ListPrompts == {"showMenu", "multiSelect", "confirm"}

\* C4: in showMenu, multiSelect and confirm the active index starts at 0, moves
\* by exactly 1 per up/down key except at the ends, where it stays put (no
\* wraparound), and is always within [0, lastIndex].
C4_ActiveIndexClamped ==
    /\ [](prompt.kind \in ListPrompts => Active(prompt) \in 0..(prompt.n - 1))
    /\ [][ /\ (prompt.state = "idle" /\ prompt'.kind \in ListPrompts)
                => Active(prompt') = 0
           /\ (prompt.kind \in ListPrompts /\ prompt.state = "awaiting" /\ lastKey' = "up")
                => Active(prompt') = IF Active(prompt) = 0 THEN 0 ELSE Active(prompt) - 1
           /\ (prompt.kind \in ListPrompts /\ prompt.state = "awaiting" /\ lastKey' = "down")
                => Active(prompt') = IF Active(prompt) = prompt.n - 1
                                     THEN prompt.n - 1 ELSE Active(prompt) + 1
         ]_vars

\* C4 witness: a down key at the last row of the longest list left the cursor there
C4_Witness ==
    /\ prompt.kind = "multiSelect"
    /\ prompt.state = "awaiting"
    /\ prompt.n = MaxOpts
    /\ lastKey = "down"
    /\ prompt.current = prompt.n - 1

\* C5: a single-select menu awaiting a key resolves on return with {index:
\* active, ok: true}, on escape with {index: active, ok: false}, and on no
\* other event; a key other than up/down/return/escape changes nothing.
C5_MenuResolvesOnlyOnReturnOrEscape ==
    [][ (prompt.kind = "showMenu" /\ prompt.state = "awaiting") =>
           /\ lastKey' = "return" =>
                /\ prompt'.state = "resolved"
                /\ prompt'.result = [NoResult EXCEPT !.index = prompt.selected, !.ok = TRUE]
           /\ lastKey' = "escape" =>
                /\ prompt'.state = "resolved"
                /\ prompt'.result = [NoResult EXCEPT !.index = prompt.selected, !.ok = FALSE]
           /\ lastKey' \notin {"return", "escape"} => prompt'.state = "awaiting"
           /\ lastKey' \notin {"up", "down", "return", "escape"} => prompt' = prompt
      ]_vars

\* C5 witness: a menu cancelled with the cursor moved off the first row
C5_Witness ==
    /\ prompt.kind = "showMenu"
    /\ prompt.state = "resolved"
    /\ lastKey = "escape"
    /\ prompt.result.index = 2
    /\ ~prompt.result.ok

\* C6: a multi-select awaiting a key resolves on return with ok = true and
\* exactly the indices with an odd number of space presses, each once, all
\* within [0, lastIndex]; on escape with ok = false and no index.
C6_MultiSelectResult ==
    [][ (prompt.kind = "multiSelect" /\ prompt.state = "awaiting") =>
           /\ lastKey' = "return" =>
                /\ prompt'.state = "resolved"
                /\ prompt'.result.ok
                /\ Range(prompt'.result.indexes) = odd
                /\ Len(prompt'.result.indexes) = Cardinality(odd)
                /\ odd \subseteq 0..(prompt.n - 1)
           /\ lastKey' = "escape" =>
                /\ prompt'.state = "resolved"
                /\ ~prompt'.result.ok
                /\ prompt'.result.indexes = <<>>
      ]_vars

\* C6 witness: confirmed with rows 2 and 0 selected, in the order of selection
C6_Witness ==
    /\ prompt.kind = "multiSelect"
    /\ prompt.state = "resolved"
    /\ lastKey = "return"
    /\ prompt.result.indexes = <<2, 0>>

\* C7: a confirm prompt awaiting a key resolves on return only, with {index:
\* active, ok: active = 0}; escape and every other key that is not up or down
\* change nothing.
C7_ConfirmResolvesOnlyOnReturn ==
    [][ (prompt.kind = "confirm" /\ prompt.state = "awaiting") =>
           /\ lastKey' = "return" =>
                /\ prompt'.state = "resolved"
                /\ prompt'.result =
                       [NoResult EXCEPT !.index = prompt.selected, !.ok = (prompt.selected = 0)]
           /\ lastKey' # "return" => prompt'.state = "awaiting"
           /\ lastKey' \notin {"up", "down", "return"} => prompt' = prompt
      ]_vars

\* C7 witness: escape pressed on the second option, the prompt still awaits
C7_Witness ==
    /\ prompt.kind = "confirm"
    /\ prompt.state = "awaiting"
    /\ lastKey = "escape"
    /\ prompt.selected = 1


\* --------------------------------------- claims on the terminal and the loop
\* C1: while the program runs, raw mode is on only while one of showMenu,
\* multiSelect, confirm and waitForKey awaits a key, and whenever one of
\* them has resolved raw mode is off and no keypress listener is attached.
C1_RawModeOnlyWhileAwaiting ==
    proc = "running" =>
        /\ stdin.isRaw => (prompt.kind \in KeyPrompts /\ prompt.state = "awaiting")
        /\ (prompt.kind \in KeyPrompts /\ prompt.state = "resolved")
               => (~stdin.isRaw /\ stdin.keypress = <<>>)

\* C1 witness: a multi-select with a row selected, cancelled on a terminal
C1_Witness ==
    /\ proc = "running"
    /\ stdin.isTTY
    /\ prompt.kind = "multiSelect"
    /\ prompt.state = "resolved"
    /\ prompt.selectedSet # <<>>
    /\ lastKey = "escape"

\* C2: however the process ends (interrupt, another termination signal, an
\* uncaught fault, a rejected main loop), it never exits with the terminal
\* still in raw mode.
C2_NeverExitsInRawMode == proc = "exited" => ~stdin.isRaw

\* C3: at most one keypress listener is attached, it belongs to the one
\* prompt that awaits input, and while a prompt awaits input nothing but its
\* own input events (or the end of the process) changes it: no other prompt
\* is started before it has resolved.
C3_OnePromptAtATime ==
    /\ [](/\ Len(stdin.keypress) <= 1
          /\ stdin.keypress # <<>> =>
                (prompt.state = "awaiting" /\ stdin.keypress = <<prompt.kind>>))
    /\ [][ (prompt.state = "awaiting" /\ prompt' # prompt) =>
              \/ proc' = "exited"
              \/ (lastKey' \in Keys \cup {"line"} /\ prompt'.kind = prompt.kind)
         ]_vars

\* C3 witness: the second prompt of the delete handler awaits its key
C3_Witness ==
    /\ pc = "deleteTask_confirm"
    /\ prompt.kind = "confirm"
    /\ prompt.state = "awaiting"
    /\ stdin.keypress = <<"confirm">>

\* C8: on an input stream that is not a terminal, showMenu, multiSelect,
\* confirm and waitForKey resolve at once with the default (first option,
\* confirmed): none of them awaits a key or attaches a keypress listener.
C8_HeadlessResolvesAtOnce ==
    (~stdin.isTTY /\ prompt.kind \in KeyPrompts) =>
        /\ prompt.state = "resolved"
        /\ stdin.keypress = <<>>
        /\ prompt.kind \in ListPrompts =>
               (prompt.result.ok /\ prompt.result.index = 0
                    /\ prompt.result.indexes \in {<<>>, <<0>>})


\* --------------------------------------- claims on the store, one call a step
\* the step is a TaskStorage call that ran to its end
StoreCall == rounds' # rounds /\ pc = "store"
\* no task of the collection has the id
Unknown(tasks, id) == \A i \in DOMAIN tasks : tasks[i].id # id
\* the first task with the id (find, findIndex)
FirstWith(tasks, id) ==
    CHOOSE i \in DOMAIN tasks : tasks[i].id = id /\ \A j \in 1..(i - 1) : tasks[j].id # id
\* how many of the first n tasks are pending
PendingUpTo(tasks, n) == Cardinality({ i \in 1..n : ~tasks[i].completed })

\* C11: toggleComplete called twice in succession on the id of a stored task
\* (one whose completedAt is non-null iff it is completed) leaves its
\* completed flag and its completedAt value as they were before the two calls.
C11_ToggleTwiceRestores ==
    [][(/\ StoreCall
        /\ call.op = "toggleComplete"
        /\ call'.op = "toggleComplete"
        /\ call'.id = call.id
        /\ ~Unknown(load(call.before), call.id))
       => LET was == getById(call.before, call.id)[1]
              is == getById(disk', call.id)[1]
          IN (was.completedAt # Null <=> was.completed)
                 => /\ is.completed = was.completed
                    /\ is.completedAt = was.completedAt]_vars

\* C12: clearCompleted removes exactly the completed tasks, keeps every
\* pending task unchanged and in its original order, and returns the number
\* of tasks removed; a second call right after it returns 0 and changes no task.
C12_ClearCompletedExact ==
    [][(StoreCall /\ call'.op = "clearCompleted")
       => LET before == load(disk)
              after == load(disk')
          IN /\ Len(after) = PendingUpTo(before, Len(before))
             /\ \A i \in DOMAIN before :
                    ~before[i].completed => after[PendingUpTo(before, i)] = before[i]
             /\ ret'.val = Len(before) - PendingUpTo(before, Len(before))
             /\ call.op = "clearCompleted" => (ret'.val = 0 /\ after = before)]_vars

\* a second clearCompleted in a row answered 0 after the first one removed a
\* task and kept another
C12_Witness ==
    /\ call.op = "clearCompleted"
    /\ call.prev.op = "clearCompleted"
    /\ ret.val = 0
    /\ Len(Tasks) >= 1
    /\ Len(call.before.backupFile.tasks) > Len(Tasks)

\* C14: update, toggleComplete and delete with an id that no stored task has
\* return null, null and false, and leave the persisted collection as it was.
C14_UnknownIdNoEffect ==
    [][(/\ StoreCall
        /\ call'.op \in {"update", "toggleComplete", "delete"}
        /\ Unknown(load(disk), call'.id))
       => /\ IF call'.op = "delete" THEN ret'.val = FALSE ELSE ret'.val = Null
          /\ load(disk') = load(disk)]_vars

\* each of the three was called with an id that none of the stored tasks has
C14_Witness ==
    /\ call.op = "update"
    /\ Tasks # <<>>
    /\ Unknown(Tasks, call.id)
    /\ ret.val = Null
    /\ load(call.before) = Tasks

\* C16: update(id, fields) on an existing id replaces only the supplied fields
\* of that one task; its other fields, every other task and the order of the
\* collection are unchanged, and the returned task equals the persisted one.
C16_UpdateFrame ==
    [][(/\ StoreCall
        /\ call'.op = "update"
        /\ ~Unknown(load(disk), call'.id))
       => LET before == load(disk)
              after == load(disk')
              i == FirstWith(before, call'.id)
          IN /\ Len(after) = Len(before)
             /\ \A j \in DOMAIN before : j # i => after[j] = before[j]
             /\ DOMAIN after[i] = DOMAIN before[i] \cup DOMAIN call'.arg
             /\ \A f \in DOMAIN after[i] :
                    after[i][f] = IF f \in DOMAIN call'.arg THEN call'.arg[f] ELSE before[i][f]
             /\ ret'.val = Some(after[i])]_vars

\* two fields of one of several tasks were replaced
C16_Witness ==
    /\ call.op = "update"
    /\ call.arg = [priority |-> "low", category |-> "Personal"]
    /\ ret.val # Null
    /\ Len(Tasks) >= 2
    /\ getById(call.before, call.id)[1].priority = "urgent"
    /\ ret.val[1].priority = "low"
    /\ ret.val[1].description # <<>>


\* the primary file is missing or does not parse
Unreadable(d) == ~(d.tasksFile.exists /\ d.tasksFile.ok)

\* C17: when the task file is missing or cannot be parsed, load returns an
\* empty collection and every store call answers as on an empty store instead
\* of raising; a following add then persists exactly the one new task.
C17_UnreadableFileIsEmpty ==
    /\ [](Unreadable(disk) => load(disk) = <<>> /\ getAll(disk) = <<>>)
    /\ [][(StoreCall /\ Unreadable(disk))
          => CASE call'.op = "add" -> load(disk') = <<ret'.val>>
               [] call'.op \in {"update", "toggleComplete"} -> ret'.val = Null
               [] call'.op = "delete" -> ret'.val = FALSE /\ load(disk') = <<>>
               [] call'.op = "clearCompleted" -> ret'.val = 0 /\ load(disk') = <<>>
               [] call'.op = "sort" -> ret'.val = <<>>]_vars

\* add was called when tasks.json was unreadable and the backup still held
\* tasks: the store now holds the new task alone
C17_Witness ==
    /\ call.op = "add"
    /\ Unreadable(call.before)
    /\ call.before.backupFile.ok
    /\ call.before.backupFile.tasks # <<>>
    /\ Tasks = <<ret.val>>

\* the call saved: add, delete and clearCompleted always do, update and
\* toggleComplete when they found the task
Saved == call'.op \in {"add", "delete", "clearCompleted"}
         \/ (call'.op \in {"update", "toggleComplete"} /\ ret'.val # Null)

\* C18: after every completed save performed while the primary file exists,
\* the backup file holds exactly what the primary file held before that save
\* and the primary file holds the new full collection.
C18_BackupIsPreviousPrimary ==
    [][(StoreCall /\ Saved /\ disk.tasksFile.exists)
       => /\ disk'.backupFile = disk.tasksFile
          /\ disk'.tasksFile.exists /\ disk'.tasksFile.ok
          /\ call'.op = "add" => disk'.tasksFile.tasks = Append(load(disk), ret'.val)
          /\ call'.op \in {"update", "toggleComplete"}
                 => /\ Len(disk'.tasksFile.tasks) = Len(load(disk))
                    /\ \E i \in DOMAIN load(disk') : load(disk')[i] = ret'.val[1]]_vars

\* a save replaced a primary file that held tasks, and replaced an older backup
C18_Witness ==
    /\ call.op = "add"
    /\ call.before.tasksFile.ok
    /\ call.before.tasksFile.tasks # <<>>
    /\ call.before.backupFile.exists
    /\ call.before.backupFile # call.before.tasksFile
    /\ disk.backupFile = call.before.tasksFile
    /\ Len(Tasks) = Len(call.before.tasksFile.tasks) + 1

\* C13: sort(tasks, 'due', reverse) returns a reordered copy in which every
\* task without a due date comes after every task with one, with reverse
\* false and with reverse true.
C13_UndatedLast ==
    (call.op = "sort" /\ call.arg.sortBy = "due")
        => /\ Len(ret.val) = Len(load(call.before))
           /\ \A i \in DOMAIN ret.val : \E j \in DOMAIN ret.val : ret.val[i] = load(call.before)[j]
           /\ \A i, j \in DOMAIN ret.val :
                  (i < j /\ falsy(ret.val[i].dueDate)) => falsy(ret.val[j].dueDate)


\* ------------------------------------------------ claims on the handlers
\* the code after the await at `at` runs in this step
HandlerStep(at) == pc = at /\ prompt.state = "resolved" /\ pc' \notin {at, "exited"}

\* C15: in the Add Task handler an empty or whitespace-only title ends the
\* handler with no further prompt of its own and with the persisted
\* collection unchanged; every task the handler creates has a title that is
\* not empty.
C15_EmptyTitleAborts ==
    /\ [][(HandlerStep("addTask_title") /\ Trim(prompt.result.text) = <<>>)
          => /\ pc' = "main_continue"
             /\ disk' = disk
             /\ locals' = NoLocals]_vars
    /\ [][(pc \in {"addTask_title", "addTask_priority", "addTask_category",
                   "addTask_due", "addTask_desc"}
           /\ load(disk') # load(disk))
          => /\ HandlerStep("addTask_desc")
             /\ Len(load(disk')) = Len(load(disk)) + 1
             /\ SubSeq(load(disk'), 1, Len(load(disk))) = load(disk)
             /\ load(disk')[Len(load(disk'))].title # <<>>
             /\ Trim(load(disk')[Len(load(disk'))].title) # <<>>]_vars

\* the title prompt of Add Task was answered with a blank, with tasks stored
C15_Witness ==
    /\ pc = "addTask_title"
    /\ prompt.state = "resolved"
    /\ prompt.result.text = <<" ">>
    /\ Tasks # <<>>

\* the tasks at the selected rows of the list the handler showed
AtRows(list, indexes) == { list[i + 1] : i \in { k \in Range(indexes) : k + 1 \in DOMAIN list } }
\* s is t in another order, by non-decreasing priority rank
IsPrioritySorted(s, t) ==
    /\ Len(s) = Len(t)
    /\ Range(s) = Range(t)
    /\ \A i, j \in DOMAIN s :
           i < j => priorityOrder(s[i].priority) <= priorityOrder(s[j].priority)

\* C20: in the Delete Task handler the persisted collection changes only when
\* the multi-select is confirmed with a non-empty selection and the confirm
\* prompt is accepted on option 0; then exactly the tasks at the selected
\* rows of the priority-sorted list are removed and all others stay as they
\* were. A cancelled or empty selection, or a declined confirm, changes nothing.
C20_DeleteOnlySelected ==
    /\ [][(pc' = "deleteTask_select" \/ pc = "deleteTask_select")
          => /\ load(disk') = load(disk)
             /\ pc' = "deleteTask_select" => IsPrioritySorted(locals'.list, load(disk))
             /\ pc' = "deleteTask_confirm"
                    => /\ prompt.result.ok
                       /\ prompt.result.indexes # <<>>
                       /\ locals'.indexes = prompt.result.indexes
                       /\ locals'.list = locals.list]_vars
    /\ [][pc = "deleteTask_confirm"
          => IF HandlerStep("deleteTask_confirm") /\ prompt.selected = 0
                 THEN LET gone == AtRows(locals.list, locals.indexes)
                          kept(t) == t \notin gone
                      IN /\ gone # {}
                         /\ load(disk') = SelectSeq(load(disk), kept)
                 ELSE load(disk') = load(disk)]_vars

\* rows 0 and 2 of the sorted list (b, a, c) were deleted: a is what is left
C20_Witness ==
    /\ pc = "main_continue"
    /\ ret = [op |-> "delete", val |-> TRUE]
    /\ Len(Tasks) = 1
    /\ Tasks[1].title = <<"a">>


\* C23: a store call that leaves the collection unchanged (update,
\* toggleComplete or delete on an unknown id, clearCompleted with no completed
\* task) leaves the backup file unchanged too.
C23_NoOpKeepsBackup ==
    [][(/\ StoreCall
        /\ \/ /\ call'.op \in {"update", "toggleComplete", "delete"}
              /\ Unknown(load(disk), call'.id)
           \/ /\ call'.op = "clearCompleted"
              /\ PendingUpTo(load(disk), Len(load(disk))) = Len(load(disk)))
       => /\ load(disk') = load(disk)
          /\ disk'.backupFile = disk.backupFile]_vars

\* C21: in the Complete Task handler the list shown is the pending tasks; a
\* multi-select confirmed with a non-empty selection leaves every task at a
\* selected row completed with a completedAt, and changes nothing else; a
\* cancelled or empty selection leaves the persisted collection unchanged.
C21_CompleteOnlySelected ==
    /\ [][pc' = "completeTask" /\ pc # "completeTask"
          => /\ load(disk') = load(disk)
             /\ Len(locals'.list) = PendingUpTo(load(disk), Len(load(disk)))
             /\ \A i \in DOMAIN load(disk) :
                    ~load(disk)[i].completed
                        => locals'.list[PendingUpTo(load(disk), i)] = load(disk)[i]]_vars
    /\ [][pc = "completeTask"
          => IF /\ HandlerStep("completeTask")
                /\ prompt.result.ok
                /\ prompt.result.indexes # <<>>
                 THEN LET before == load(disk)
                          after == load(disk')
                          rows == AtRows(locals.list, prompt.result.indexes)
                      IN /\ rows # {}
                         /\ Len(after) = Len(before)
                         /\ \A i \in DOMAIN before :
                                IF before[i] \in rows
                                    THEN /\ after[i].completed
                                         /\ after[i].completedAt # Null
                                         /\ after[i] = [before[i] EXCEPT
                                                !.completed = TRUE,
                                                !.completedAt = after[i].completedAt]
                                    ELSE after[i] = before[i]
                 ELSE load(disk') = load(disk)]_vars

\* row 1 of the pending list (a, c) was selected alone: c, the third stored
\* task, is completed and a is still pending
C21_Witness ==
    /\ pc = "main_continue"
    /\ ret.op = "toggleComplete"
    /\ Len(Tasks) = 3
    /\ ~Tasks[1].completed
    /\ Tasks[3].completed
    /\ Tasks[3].completedAt = Some(now)


\* ----------------------------------------------------------- SpecHandlers
\* main() dispatches to one handler after another; a step is a whole handler,
\* from the menu choice to its return, with what its prompts resolve to drawn
\* as inputs. Between two handlers the main menu awaits a key.

\* what showMenu resolves with: a row, or escape
Ok(i) == [NoResult EXCEPT !.index = i, !.ok = TRUE]
Esc == [NoResult EXCEPT !.ok = FALSE]
MenuResults(n) == {Esc} \cup { Ok(i) : i \in 0..(n - 1) }

\* what multiSelect resolves with: escape, or the rows selected, in the order
\* they were selected (none, one, two, or all of them)
Selections(n) ==
    LET rows == 0..(n - 1)
    IN {Esc}
       \cup { [NoResult EXCEPT !.ok = TRUE] }
       \cup { [NoResult EXCEPT !.ok = TRUE, !.indexes = <<i>>] : i \in rows }
       \cup { [NoResult EXCEPT !.ok = TRUE, !.indexes = <<ij[1], ij[2]>>] :
                  ij \in { x \in rows \X rows : x[1] # x[2] } }
       \cup { [NoResult EXCEPT !.ok = TRUE, !.indexes = [k \in 1..n |-> k - 1]] }

\* answers to the five prompts of addTask and of editTask: title, priority
\* menu, category menu, due date, description
Answers ==
    { [title |-> <<>>, p |-> Esc, c |-> Esc, due |-> <<>>, desc |-> <<>>],
      [title |-> <<" ", "a", " ">>, p |-> Ok(3), c |-> Ok(7),
       due |-> <<" ", "a", " ">>, desc |-> <<" ", "a", " ">>],
      [title |-> <<" ">>, p |-> Ok(0), c |-> Esc, due |-> <<" ">>, desc |-> <<" ">>],
      [title |-> <<" ", "a", " ">>, p |-> Esc, c |-> Ok(1), due |-> <<>>, desc |-> <<" ">>] }

\* index.js:212-233 with a collection an earlier session left: the main menu
\* is on screen
InitHandlers ==
    \E seed \in Seeds :
        /\ stdin = showMenu(Stdin0(TRUE), Len(menuItems)).s
        /\ prompt = showMenu(Stdin0(TRUE), Len(menuItems)).p
        /\ lastKey = ""
        /\ odd = {}
        /\ proc = "running"
        /\ pc = "main_showMenu"
        /\ rounds = 0
        /\ locals = NoLocals
        /\ disk = init(seed.disk)
        /\ now = 1
        /\ uuids = seed.uuids
        /\ born = seed.born
        /\ ret = NoRet
        /\ call = NoCall
        /\ saved = Null

\* a handler ran from the menu choice to its return, and the menu is back
Handled(name, r) ==
    /\ pc = "main_showMenu"
    /\ rounds < MaxHandlers
    /\ rounds' = rounds + 1
    /\ disk' = r.disk
    /\ ret' = r.ret
    /\ call' = [NoCall EXCEPT !.op = name, !.before = disk]
    /\ UNCHANGED <<stdin, prompt, lastKey, odd, proc, pc, locals, now, saved>>

\* the handler returned without a store call
Same == [disk |-> disk, ret |-> ret]

\* index.js:271-286: the locals of addTask after its first four prompts
addLocals(a) ==
    [NoLocals EXCEPT
        !.title = a.title,
        !.priority = IF a.p.ok THEN PRIORITIES[a.p.index + 1] ELSE "medium",
        !.category = IF a.c.ok THEN CATEGORIES[a.c.index + 1] ELSE "General",
        !.due = Some(a.due)]

\* index.js:268-300
Handler_addTask ==
    \E a \in Answers :
        IF Trim(a.title) = <<>>
            THEN /\ Handled("addTask", Same)
                 /\ UNCHANGED <<uuids, born>>
            ELSE /\ uuids < MaxIds
                 /\ Handled("addTask",
                            add(disk, addTaskData(addLocals(a), a.desc), uuids + 1, now))
                 /\ uuids' = uuids + 1
                 /\ born' = Append(born, now)

\* index.js:302-319
Handler_completeTask ==
    LET tasks == filterPending(disk)
    IN /\ IF Len(tasks) = 0
              THEN Handled("completeTask", Same)
              ELSE \E res \in Selections(Len(tasks)) :
                       IF ~res.ok \/ Len(res.indexes) = 0
                           THEN Handled("completeTask", Same)
                           ELSE Handled("completeTask",
                                        toggleEach(Same, tasks, res.indexes, now))
       /\ UNCHANGED <<uuids, born>>

\* index.js:341-353: the locals of editTask after its first four prompts
editLocals(task, a) ==
    [NoLocals EXCEPT
        !.task = Some(task),
        !.title = IF a.title = <<>> THEN task.title ELSE a.title,
        !.priority = IF a.p.ok THEN PRIORITIES[a.p.index + 1] ELSE task.priority,
        !.category = IF a.c.ok THEN CATEGORIES[a.c.index + 1] ELSE task.category,
        !.due = IF a.due = <<>> THEN task.dueDate ELSE Some(a.due)]

\* index.js:321-366
Handler_editTask ==
    LET tasks == getAll(disk)
        sorted == sort(tasks, "priority", FALSE)
    IN /\ IF Len(tasks) = 0
              THEN Handled("editTask", Same)
              ELSE \E res \in MenuResults(Len(sorted)), a \in Answers :
                       IF ~res.ok \/ res.index + 1 \notin DOMAIN sorted
                           THEN Handled("editTask", Same)
                           ELSE LET task == sorted[res.index + 1]
                                IN Handled("editTask",
                                           update(disk, task.id,
                                                  editUpdates(editLocals(task, a), a.desc)))
       /\ UNCHANGED <<uuids, born>>

\* index.js:368-393
Handler_deleteTask ==
    LET tasks == getAll(disk)
        sorted == sort(tasks, "priority", FALSE)
    IN /\ IF Len(tasks) = 0
              THEN Handled("deleteTask", Same)
              ELSE \E res \in Selections(Len(sorted)), confirmRes \in {Ok(0), Esc} :
                       IF ~res.ok \/ Len(res.indexes) = 0 \/ ~confirmRes.ok
                           THEN Handled("deleteTask", Same)
                           ELSE Handled("deleteTask", deleteEach(Same, sorted, res.indexes))
       /\ UNCHANGED <<uuids, born>>

\* index.js:414-431
Handler_clearCompleted ==
    /\ IF getStatsCompleted(disk) = 0
           THEN Handled("clearCompleted", Same)
           ELSE \E confirmRes \in {Ok(0), Esc} :
                    IF ~confirmRes.ok
                        THEN Handled("clearCompleted", Same)
                        ELSE Handled("clearCompleted", clearCompleted(disk))
    /\ UNCHANGED <<uuids, born>>

NextHandlers ==
    \/ Handler_addTask
    \/ Handler_completeTask
    \/ Handler_editTask
    \/ Handler_deleteTask
    \/ Handler_clearCompleted
    \/ Tick

SpecHandlers == InitHandlers /\ [][NextHandlers]_vars


\* C22: from a collection with distinct ids and completedAt non-null iff
\* completed, every sequence of handlers (Add, Complete, Edit, Delete, Clear
\* Completed, whatever their prompts resolve to) keeps the ids pairwise
\* distinct and completedAt non-null iff completed, and Edit never changes
\* the id, createdAt, completed, completedAt or tags of any task.
C22_HandlersKeepTasksWellFormed ==
    /\ [](\A i, j \in DOMAIN Tasks : i # j => Tasks[i].id # Tasks[j].id)
    /\ [](\A i \in DOMAIN Tasks : (Tasks[i].completedAt # Null) <=> Tasks[i].completed)
    /\ [][(call'.op = "editTask" /\ rounds' # rounds)
          => /\ Len(load(disk')) = Len(load(disk))
             /\ \A i \in DOMAIN load(disk) :
                    /\ load(disk')[i].id = load(disk)[i].id
                    /\ load(disk')[i].createdAt = load(disk)[i].createdAt
                    /\ load(disk')[i].completed = load(disk)[i].completed
                    /\ load(disk')[i].completedAt = load(disk)[i].completedAt
                    /\ load(disk')[i].tags = load(disk)[i].tags]_vars

\* the first stored task, pending at the start, was completed and then
\* edited: it has new field values and is still completed
C22_Witness ==
    /\ call.op = "editTask"
    /\ ret.op = "update"
    /\ ret.val # Null
    /\ ret.val[1].id = 1
    /\ ret.val[1].completed
    /\ ret.val[1].completedAt # Null
    /\ ret.val[1] # getById(call.before, 1)[1]
    /\ getById(disk, 1) = ret.val

=============================================================================
